---- MODULE Spec2Model ----
(***************************************************************************)
(* The /users route handlers (GET, POST, PATCH, DELETE), the error         *)
(* normaliser handleError and the cached database client `prisma`.         *)
(*                                                                         *)
(* Every handler is cut at its `await`s: the synchronous code between two  *)
(* awaits is one atomic step, and each data-store call takes effect        *)
(* atomically when the step that awaits it runs.                           *)
(***************************************************************************)
EXTENDS Integers, Sequences, FiniteSets, TLC

VARIABLES users, deleted, req, pc, resp, existingUser, caught, calls, raced,
          mode, globalPrisma, prisma, constructed, reloads, got,
          heArgs, heOut

storeVars  == <<users, deleted>>
reqVars    == <<req, pc, resp, existingUser, caught, calls, raced>>
clientVars == <<mode, globalPrisma, prisma, constructed, reloads, got>>
errVars    == <<heArgs, heOut>>
vars       == <<users, deleted, req, pc, resp, existingUser, caught, calls, raced,
                mode, globalPrisma, prisma, constructed, reloads, got,
                heArgs, heOut>>

(***************************************************************************)
(* Bounds of the model.                                                    *)
(***************************************************************************)
MaxStrLen  == 1
MaxReloads == 6

Reqs      == {1, 2}
Importers == {1, 2, 3, 4}

(***************************************************************************)
(* JavaScript values that can stand in a JSON body field.  A string is a   *)
(* sequence of characters, so that trim() is computed and not assumed.     *)
(***************************************************************************)
Chars      == {" ", "a", "b"}
Whitespace == {" "}
Strings    == UNION {[1..n -> Chars] : n \in 0..MaxStrLen}

Undefined == [t |-> "undefined", v |-> <<>>]
Null      == [t |-> "null", v |-> <<>>]
Num0      == [t |-> "number", v |-> <<"0">>]
Num7      == [t |-> "number", v |-> <<"7">>]
True      == [t |-> "boolean", v |-> <<"true">>]
Str(s)    == [t |-> "string", v |-> s]

\* ToBoolean: the operand of `!`
Truthy(x) ==
    /\ x.t \notin {"undefined", "null"}
    /\ ~(x.t = "number" /\ x.v = <<"0">>)
    /\ ~(x.t = "boolean" /\ x.v = <<"false">>)
    /\ ~(x.t = "string" /\ x.v = <<>>)

typeof(x) == IF x.t = "null" THEN "object" ELSE x.t

RECURSIVE trimStart(_)
trimStart(s) ==
    IF s # <<>> /\ Head(s) \in Whitespace THEN trimStart(Tail(s)) ELSE s

RECURSIVE trimEnd(_)
trimEnd(s) ==
    IF s # <<>> /\ s[Len(s)] \in Whitespace
    THEN trimEnd(SubSeq(s, 1, Len(s) - 1))
    ELSE s

\* String.prototype.trim
trim(s) == trimEnd(trimStart(s))

(***************************************************************************)
(* Request bodies: what `await request.json()` yields.  "unparsable" makes *)
(* json() reject; "null" is the JSON text null; "primitive" is a JSON      *)
(* number, string or boolean (every property of it reads undefined);       *)
(* "object" carries the fields the handlers read, and `extra` says that    *)
(* the object holds one more field that is no column of User.              *)
(***************************************************************************)
Body(k, i, u, p, e) ==
    [kind |-> k, id |-> i, username |-> u, password |-> p, extra |-> e]

NoBody     == Body("none", Undefined, Undefined, Undefined, FALSE)
Unparsable == Body("unparsable", Undefined, Undefined, Undefined, FALSE)
NullBody   == Body("null", Undefined, Undefined, Undefined, FALSE)
Primitive  == Body("primitive", Undefined, Undefined, Undefined, FALSE)
Obj(i, u, p, e) == Body("object", i, u, p, e)

\* identifiers the data store may hold
IdPool == {<<"a">>, <<"b">>}

IdVals == {Undefined, Null, Num0, Num7, True} \cup {Str(s) : s \in Strings}

GetRequests == {[method |-> "GET", body |-> NoBody]}

PostBodies ==
    {Unparsable, NullBody, Primitive}
    \cup {Obj(i, u, p, FALSE) :
            i \in {Undefined} \cup {Str(s) : s \in IdPool},
            u \in {Undefined, Str(<<"x">>)},
            p \in {Str(<<"p">>)}}
    \cup {Obj(Undefined, Str(<<"x">>), Num7, FALSE),
          Obj(Undefined, Str(<<"x">>), Str(<<"p">>), TRUE)}

PatchBodies ==
    {Unparsable, NullBody, Primitive}
    \cup {Obj(i, Undefined, Undefined, FALSE) : i \in IdVals}
    \cup {Obj(Str(<<"a">>), u, p, FALSE) :
            u \in {Undefined, Str(<<"y">>)},
            p \in {Undefined, Str(<<"q">>)}}
    \cup {Obj(Str(<<"b">>), Str(<<"y">>), Undefined, FALSE),
          Obj(Str(<<"a">>), Num7, Undefined, FALSE),
          Obj(Str(<<"a">>), Str(<<"y">>), Undefined, TRUE)}

DeleteBodies ==
    {Unparsable, NullBody, Primitive}
    \cup {Obj(i, Undefined, Undefined, FALSE) : i \in IdVals}

Requests ==
    GetRequests
    \cup {[method |-> "POST", body |-> b] : b \in PostBodies}
    \cup {[method |-> "PATCH", body |-> b] : b \in PatchBodies}
    \cup {[method |-> "DELETE", body |-> b] : b \in DeleteBodies}

\* the requests that create, update and delete the row "a"
CoreRequests ==
    {[method |-> "POST",
      body |-> Obj(Str(<<"a">>), Str(<<"x">>), Str(<<"p">>), FALSE)],
     [method |-> "PATCH",
      body |-> Obj(Str(<<"a">>), Str(<<"y">>), Undefined, FALSE)],
     [method |-> "DELETE",
      body |-> Obj(Str(<<"a">>), Undefined, Undefined, FALSE)]}

\* request 1 ranges over every request, the requests that run beside it over
\* the core ones
RequestsOf(r) == IF r = 1 THEN Requests ELSE CoreRequests

NoRequest == [method |-> "none", body |-> NoBody]

(***************************************************************************)
(* Thrown values and responses.                                            *)
(***************************************************************************)
Err(m)      == [isError |-> TRUE, message |-> m]
NonError(m) == [isError |-> FALSE, message |-> m]

SyntaxError     == Err("Unexpected token in JSON")
TypeError       == Err("Cannot read properties of null")
ConnectionError == Err("Cannot reach database server")
ValidationError == Err("Invalid invocation")
UniqueError     == Err("Unique constraint failed on the fields: id")
NotFoundError   == Err("Record to update or delete does not exist")

Response(body, status) == [status |-> status, body |-> body]
NoResponse == [status |-> 0, body |-> [none |-> TRUE]]

\* `message + error.message`: an omitted prefix is the value undefined, which
\* the + operator converts to the text "undefined"
ToText(x) == IF x.t = "undefined" THEN "undefined" ELSE x.s
Prefix(s) == [t |-> "string", s |-> s]
NoPrefix  == [t |-> "undefined", s |-> ""]

handleErrorNoPrefix(error, statusCode, message) ==
    Response([message |-> IF error.isError THEN error.message
                          ELSE "An unknown error occurred"], statusCode)

handleError(error, statusCode, message) ==
    LET errorMessage == IF error.isError
                        THEN ToText(message) \o error.message
                        ELSE "An unknown error occurred"
    IN  Response([message |-> errorMessage], statusCode)

(***************************************************************************)
(* The User table behind prisma.user.  A row is [id, username, password];  *)
(* `id` is the primary key.  Every call yields a set of possible outcomes: *)
(* the call may always fail because the data store cannot be reached.      *)
(***************************************************************************)
User(i, u, p) == [id |-> i, username |-> u, password |-> p]

ids(U) == {u.id : u \in U}

Ok(value, store)   == [ok |-> TRUE, error |-> Err(""), value |-> value, store |-> store]
Fail(error, store) == [ok |-> FALSE, error |-> error, value |-> {}, store |-> store]

\* prisma.user.findMany()
findMany(U) == {Ok(U, U), Fail(ConnectionError, U)}

\* prisma.user.findUnique({ where: { id } }): the row, or null (here {})
findUnique(U, id) == {Ok({u \in U : u.id = id}, U), Fail(ConnectionError, U)}

\* the data argument of create is a row: nothing but the columns of User,
\* username and password strings, id a string or left to the data store
ValidCreate(data) ==
    /\ data.kind = "object"
    /\ ~data.extra
    /\ data.id.t \in {"undefined", "string"}
    /\ data.username.t = "string"
    /\ data.password.t = "string"

\* prisma.user.create({ data }): a given id is kept (and must be unused among
\* the rows), an absent id is generated and is one never seen before
create(U, seen, data) ==
    {Fail(ConnectionError, U)} \cup
    IF ~ValidCreate(data) THEN {Fail(ValidationError, U)}
    ELSE IF data.id.t = "string"
         THEN IF data.id.v \in ids(U)
              THEN {Fail(UniqueError, U)}
              ELSE LET row == User(data.id.v, data.username.v, data.password.v)
                   IN  {Ok({row}, U \cup {row})}
         ELSE {LET row == User(g, data.username.v, data.password.v)
               IN  Ok({row}, U \cup {row}) : g \in IdPool \ seen}

\* a column in the data of update is a string, or undefined: left as it is
ValidUpdate(data) ==
    /\ data.username.t \in {"undefined", "string"}
    /\ data.password.t \in {"undefined", "string"}

\* prisma.user.update({ where: { id }, data })
update(U, id, data) ==
    {Fail(ConnectionError, U)} \cup
    IF ~ValidUpdate(data) THEN {Fail(ValidationError, U)}
    ELSE IF id \notin ids(U) THEN {Fail(NotFoundError, U)}
    ELSE LET old == CHOOSE u \in U : u.id = id
             row == User(old.id,
                         IF data.username.t = "string" THEN data.username.v
                                                       ELSE old.username,
                         IF data.password.t = "string" THEN data.password.v
                                                       ELSE old.password)
         IN  {Ok({row}, (U \ {old}) \cup {row})}

\* prisma.user.delete({ where: { id } })
delete(U, id) ==
    {Fail(ConnectionError, U)} \cup
    IF id \notin ids(U) THEN {Fail(NotFoundError, U)}
    ELSE LET old == CHOOSE u \in U : u.id = id
         IN  {Ok({old}, U \ {old})}

TheUser(value) == CHOOSE u \in value : TRUE

(***************************************************************************)
(* The pieces of the handlers.                                             *)
(***************************************************************************)
\* if (!body.id || typeof body.id !== "string" || body.id.trim() === "")
InvalidId(body) ==
    \/ ~Truthy(body.id)
    \/ typeof(body.id) # "string"
    \/ trim(body.id.v) = <<>>

InvalidIdResponse == Response([error |-> "Invalid or missing user ID"], 400)

\* if (!existingUser)
MissingNever(found) == FALSE

Missing(found) == found = {}

NotFoundResponse == Response([error |-> "User not found"], 404)

\* data: { username: body.username, password: body.password }
updateDataUsernameOnly(body) ==
    [username |-> body.username, password |-> Undefined]

updateData(body) == [username |-> body.username, password |-> body.password]

\* GET, after findMany
GETresponseAlways200(allUsers) == Response([array |-> allUsers], 200)

GETresponse(allUsers) ==
    IF Cardinality(allUsers) = 0
    THEN Response([message |-> "No users found"], 404)
    ELSE Response([array |-> allUsers], 200)

POSTresponse200(user) ==
    Response([user |-> user, message |-> "User created successfully"], 200)

POSTresponse(user) ==
    Response([user |-> user, message |-> "User created successfully"], 201)

PATCHresponse(user) ==
    Response([user |-> user, message |-> "User updated successfully"], 200)

DELETEresponse(user) ==
    Response([user |-> user, message |-> "User deleted successfully"], 200)

GETcatch500(error) == handleError(error, 500, Prefix("Error Fetching Users"))

GETcatch(error)    == handleError(error, 404, Prefix("Error Fetching Users"))
POSTcatch(error)   == handleError(error, 500, Prefix("Error Creating User"))
PATCHcatch(error)  == handleError(error, 500, Prefix("Error Updating User"))
DELETEcatch(error) == handleError(error, 500, Prefix("Error Deleting User"))

(***************************************************************************)
(* The requests in flight.  pc[r] is the await the handler of request r is *)
(* suspended at.  existingUser[r] and caught[r] are the handler's locals:  *)
(* what the existence check found ("null" or "row"; the handler reads      *)
(* nothing else of it) and the value its catch block received.  calls[r]   *)
(* lists the data-store calls the request has issued.  raced[r] records    *)
(* that, since r's existence check found the row, another request has      *)
(* deleted it.  `deleted` holds the ids of the rows deleted so far.        *)
(***************************************************************************)
NoError == NonError("<none>")

Finish(r, response) ==
    /\ resp' = [resp EXCEPT ![r] = response]
    /\ pc' = [pc EXCEPT ![r] = "done"]
    /\ UNCHANGED caught

\* the catch block of the handler: `response` is what its handleError call yields
Catch(r, error, response) ==
    /\ resp' = [resp EXCEPT ![r] = response]
    /\ pc' = [pc EXCEPT ![r] = "done"]
    /\ caught' = [caught EXCEPT ![r] = error]

Goto(r, label) ==
    /\ pc' = [pc EXCEPT ![r] = label]
    /\ UNCHANGED <<resp, caught>>

Call(r, name) == calls' = [calls EXCEPT ![r] = Append(@, name)]

\* every id a row has ever had
used == ids(users) \cup deleted

\* the host hands a request to the handler of its method
Receive(r, request) ==
    /\ pc[r] \in {"idle", "done"}
    /\ req' = [req EXCEPT ![r] = request]
    /\ pc' = [pc EXCEPT ![r] = IF request.method = "GET" THEN "findMany" ELSE "json"]
    /\ resp' = [resp EXCEPT ![r] = NoResponse]
    /\ existingUser' = [existingUser EXCEPT ![r] = "unset"]
    /\ caught' = [caught EXCEPT ![r] = NoError]
    /\ calls' = [calls EXCEPT ![r] = <<>>]
    /\ raced' = [raced EXCEPT ![r] = FALSE]
    /\ UNCHANGED <<storeVars, clientVars, errVars>>

\* GET: const allUsers = await prisma.user.findMany(); ...
GETfindMany(r) ==
    /\ req[r].method = "GET"
    /\ pc[r] = "findMany"
    /\ \E o \in findMany(users) :
          /\ users' = o.store
          /\ IF o.ok THEN Finish(r, GETresponse(o.value))
                     ELSE Catch(r, o.error, GETcatch(o.error))
    /\ Call(r, "findMany")
    /\ UNCHANGED <<deleted, req, existingUser, raced, clientVars, errVars>>

\* POST: const body = await request.json();
POSTjson(r) ==
    /\ req[r].method = "POST"
    /\ pc[r] = "json"
    /\ IF req[r].body.kind = "unparsable"
       THEN Catch(r, SyntaxError, POSTcatch(SyntaxError))
       ELSE Goto(r, "create")
    /\ UNCHANGED <<storeVars, req, existingUser, calls, raced, clientVars, errVars>>

\* POST: const user = await prisma.user.create({ data: body }); ...
POSTcreate(r) ==
    /\ req[r].method = "POST"
    /\ pc[r] = "create"
    /\ \E o \in create(users, used, req[r].body) :
          /\ users' = o.store
          /\ IF o.ok THEN Finish(r, POSTresponse(TheUser(o.value)))
                     ELSE Catch(r, o.error, POSTcatch(o.error))
    /\ Call(r, "create")
    /\ UNCHANGED <<deleted, req, existingUser, raced, clientVars, errVars>>

\* PATCH: const body = await request.json(); if (!body.id || ...) ...
PATCHjson(r) ==
    /\ req[r].method = "PATCH"
    /\ pc[r] = "json"
    /\ LET body == req[r].body
       IN  IF body.kind = "unparsable" THEN Catch(r, SyntaxError, PATCHcatch(SyntaxError))
           ELSE IF body.kind = "null" THEN Catch(r, TypeError, PATCHcatch(TypeError))
           ELSE IF InvalidId(body) THEN Finish(r, InvalidIdResponse)
           ELSE Goto(r, "findUnique")
    /\ UNCHANGED <<storeVars, req, existingUser, calls, raced, clientVars, errVars>>

\* PATCH: const existingUser = await prisma.user.findUnique(...); if (!existingUser) ...
PATCHfindUnique(r) ==
    /\ req[r].method = "PATCH"
    /\ pc[r] = "findUnique"
    /\ \E o \in findUnique(users, req[r].body.id.v) :
          /\ users' = o.store
          /\ existingUser' = [existingUser EXCEPT ![r] =
                                 IF ~o.ok THEN @
                                 ELSE IF o.value = {} THEN "null" ELSE "row"]
          /\ IF ~o.ok THEN Catch(r, o.error, PATCHcatch(o.error))
             ELSE IF Missing(o.value) THEN Finish(r, NotFoundResponse)
             ELSE Goto(r, "update")
    /\ Call(r, "findUnique")
    /\ UNCHANGED <<deleted, req, raced, clientVars, errVars>>

\* PATCH: const user = await prisma.user.update(...); ...
PATCHupdate(r) ==
    /\ req[r].method = "PATCH"
    /\ pc[r] = "update"
    /\ \E o \in update(users, req[r].body.id.v, updateData(req[r].body)) :
          /\ users' = o.store
          /\ IF o.ok THEN Finish(r, PATCHresponse(TheUser(o.value)))
                     ELSE Catch(r, o.error, PATCHcatch(o.error))
    /\ Call(r, "update")
    /\ UNCHANGED <<deleted, req, existingUser, raced, clientVars, errVars>>

\* DELETE: const body = await request.json(); if (!body.id || ...) ...
DELETEjson(r) ==
    /\ req[r].method = "DELETE"
    /\ pc[r] = "json"
    /\ LET body == req[r].body
       IN  IF body.kind = "unparsable" THEN Catch(r, SyntaxError, DELETEcatch(SyntaxError))
           ELSE IF body.kind = "null" THEN Catch(r, TypeError, DELETEcatch(TypeError))
           ELSE IF InvalidId(body) THEN Finish(r, InvalidIdResponse)
           ELSE Goto(r, "findUnique")
    /\ UNCHANGED <<storeVars, req, existingUser, calls, raced, clientVars, errVars>>

\* DELETE: const existingUser = await prisma.user.findUnique(...); if (!existingUser) ...
DELETEfindUnique(r) ==
    /\ req[r].method = "DELETE"
    /\ pc[r] = "findUnique"
    /\ \E o \in findUnique(users, req[r].body.id.v) :
          /\ users' = o.store
          /\ existingUser' = [existingUser EXCEPT ![r] =
                                 IF ~o.ok THEN @
                                 ELSE IF o.value = {} THEN "null" ELSE "row"]
          /\ IF ~o.ok THEN Catch(r, o.error, DELETEcatch(o.error))
             ELSE IF Missing(o.value) THEN Finish(r, NotFoundResponse)
             ELSE Goto(r, "delete")
    /\ Call(r, "findUnique")
    /\ UNCHANGED <<deleted, req, raced, clientVars, errVars>>

\* the requests that hold a positive existence check for the row `id`
Checked(id) ==
    {q \in Reqs : pc[q] \in {"update", "delete"} /\ req[q].body.id.v = id}

\* DELETE: const user = await prisma.user.delete(...); ...
DELETEdelete(r) ==
    /\ req[r].method = "DELETE"
    /\ pc[r] = "delete"
    /\ \E o \in delete(users, req[r].body.id.v) :
          /\ users' = o.store
          /\ deleted' = deleted \cup ids(o.value)
          /\ IF o.ok THEN Finish(r, DELETEresponse(TheUser(o.value)))
                     ELSE Catch(r, o.error, DELETEcatch(o.error))
          /\ raced' = [q \in Reqs |->
                          IF o.ok /\ q # r /\ q \in Checked(req[r].body.id.v)
                          THEN TRUE ELSE raced[q]]
    /\ Call(r, "delete")
    /\ UNCHANGED <<req, existingUser, clientVars, errVars>>

GET(r)    == GETfindMany(r)
POST(r)   == POSTjson(r) \/ POSTcreate(r)
PATCH(r)  == PATCHjson(r) \/ PATCHfindUnique(r) \/ PATCHupdate(r)
DELETE(r) == DELETEjson(r) \/ DELETEfindUnique(r) \/ DELETEdelete(r)

\* no request in flight
Quiet ==
    /\ req = [r \in Reqs |-> NoRequest]
    /\ pc = [r \in Reqs |-> "idle"]
    /\ resp = [r \in Reqs |-> NoResponse]
    /\ existingUser = [r \in Reqs |-> "unset"]
    /\ caught = [r \in Reqs |-> NoError]
    /\ calls = [r \in Reqs |-> <<>>]
    /\ raced = [r \in Reqs |-> FALSE]

\* handleError has not been called on its own
ErrIdle ==
    /\ heArgs = [error |-> Err(""), statusCode |-> 500, message |-> NoPrefix]
    /\ heOut = NoResponse

Init ==
    /\ users = {}
    /\ deleted = {}
    /\ Quiet
    /\ mode = "development"
    /\ globalPrisma = 1
    /\ prisma = 1
    /\ constructed = 1
    /\ reloads = 0
    /\ got = [i \in Importers |-> 0]
    /\ ErrIdle

Next ==
    \E r \in Reqs :
        \/ \E request \in RequestsOf(r) : Receive(r, request)
        \/ GET(r)
        \/ POST(r)
        \/ PATCH(r)
        \/ DELETE(r)

Spec == Init /\ [][Next]_vars

\* every awaited promise settles and the event loop resumes the handler
Step(r) == GET(r) \/ POST(r) \/ PATCH(r) \/ DELETE(r)

\* the requests whose handling is followed to its end: every method, every
\* way a body fails to parse or to validate, and the row "a"
LiveRequests ==
    {q \in Requests :
        /\ q.body.id \in {Undefined, Str(<<" ">>), Str(<<"a">>)}
        /\ q.body.username \in {Undefined, Str(<<"x">>), Str(<<"y">>)}
        /\ q.body.password \in {Undefined, Str(<<"p">>)}
        /\ ~q.body.extra
        /\ q.body.kind # "primitive"}

LiveNext ==
    \E r \in Reqs :
        \/ \E request \in RequestsOf(r) \cap LiveRequests : Receive(r, request)
        \/ GET(r)
        \/ POST(r)
        \/ PATCH(r)
        \/ DELETE(r)

LiveSpec == Init /\ [][LiveNext]_vars /\ \A r \in Reqs : WF_vars(Step(r))

(***************************************************************************)
(* The database client module.  A handle is a positive number, 0 stands    *)
(* for undefined.  `prisma` is the export of the module instance loaded    *)
(* last, globalPrisma is globalThis.prisma, `constructed` counts the       *)
(* `new PrismaClient` calls, got[i] is the handle importer i holds.        *)
(***************************************************************************)
Modes == {"production", "development"}

\* export const prisma = globalForPrisma.prisma ?? new PrismaClient(...)
\* if (process.env.NODE_ENV !== 'production') globalForPrisma.prisma = prisma
ModuleBodyAlwaysNew ==
    /\ prisma' = constructed + 1
    /\ constructed' = constructed + 1
    /\ globalPrisma' = IF mode # "production" THEN constructed + 1 ELSE globalPrisma

ModuleBody ==
    LET handle == IF globalPrisma # 0 THEN globalPrisma ELSE constructed + 1
    IN  /\ prisma' = handle
        /\ constructed' = IF globalPrisma # 0 THEN constructed ELSE constructed + 1
        /\ globalPrisma' = IF mode # "production" THEN handle ELSE globalPrisma

\* the first import of the module in the process evaluates it
Load ==
    /\ prisma = 0
    /\ ModuleBody
    /\ UNCHANGED <<mode, reloads, got, storeVars, reqVars, errVars>>

\* a hot reload evaluates the module again; only the development server reloads
Reload ==
    /\ prisma # 0
    /\ mode # "production"
    /\ reloads < MaxReloads
    /\ ModuleBody
    /\ reloads' = reloads + 1
    /\ UNCHANGED <<mode, got, storeVars, reqVars, errVars>>

\* import { prisma } from "@/utils/db" in a module that runs after the load
Import(i) ==
    /\ prisma # 0
    /\ got' = [got EXCEPT ![i] = prisma]
    /\ UNCHANGED <<mode, globalPrisma, prisma, constructed, reloads,
                   storeVars, reqVars, errVars>>

ClientInit ==
    /\ users = {}
    /\ deleted = {}
    /\ Quiet
    /\ mode \in Modes
    /\ globalPrisma = 0
    /\ prisma = 0
    /\ constructed = 0
    /\ reloads = 0
    /\ got = [i \in Importers |-> 0]
    /\ ErrIdle

ClientNext == Load \/ Reload \/ \E i \in Importers : Import(i)

ClientSpec == ClientInit /\ [][ClientNext]_vars

(***************************************************************************)
(* handleError on its own: the arguments range over thrown values that are *)
(* Error instances and thrown values that are not, over the status codes   *)
(* and over given and omitted prefixes.                                    *)
(***************************************************************************)
Thrown == {Err("X"), Err(""), Err("boom"), NonError("X"), NonError("")}

StatusCodes == {400, 404, 500}

Prefixes == {Prefix("P: "), Prefix(""), Prefix("Error Creating User"), NoPrefix}

HeArgs == [error : Thrown, statusCode : StatusCodes, message : Prefixes]

ErrInit ==
    /\ users = {}
    /\ deleted = {}
    /\ Quiet
    /\ mode = "development"
    /\ globalPrisma = 1
    /\ prisma = 1
    /\ constructed = 1
    /\ reloads = 0
    /\ got = [i \in Importers |-> 0]
    /\ heArgs \in HeArgs
    /\ heOut = NoResponse

CallHandleError ==
    /\ heOut = NoResponse
    /\ heOut' = handleError(heArgs.error, heArgs.statusCode, heArgs.message)
    /\ UNCHANGED <<heArgs, storeVars, reqVars, clientVars>>

NextArgs ==
    /\ heOut # NoResponse
    /\ heArgs' \in HeArgs
    /\ heOut' = NoResponse
    /\ UNCHANGED <<storeVars, reqVars, clientVars>>

ErrNext == CallHandleError \/ NextArgs

ErrSpec == ErrInit /\ [][ErrNext]_vars

(***************************************************************************)
(* The properties.                                                         *)
(***************************************************************************)
Mutating(r) == req[r].method \in {"PATCH", "DELETE"}

\* request r takes the step that leaves the await `from`
Leaves(r, from) == pc[r] = from /\ pc'[r] # from

\* the body parsed, and holds no usable id: absent, no string, or a string of
\* nothing but whitespace
IdMissing(body) ==
    /\ body.kind \in {"null", "primitive", "object"}
    /\ \/ body.id.t # "string"
       \/ \A i \in 1..Len(body.id.v) : body.id.v[i] \in Whitespace

\* C1: every PATCH or DELETE whose body is missing `id` is answered with
\* status 400 and the body { error: "Invalid or missing user ID" }.
C1_MissingIdIs400 ==
    \A r \in Reqs :
        (Mutating(r) /\ pc[r] = "done" /\ IdMissing(req[r].body))
            => resp[r] = Response([error |-> "Invalid or missing user ID"], 400)

\* C2: a PATCH or DELETE whose id passes validation and whose existence check
\* finds no row is answered 404 { error: "User not found" }; it issues no
\* update or delete call and leaves the rows as they are.
C2_NotFound ==
    /\ [](\A r \in Reqs :
            (Mutating(r) /\ existingUser[r] = "null")
                => /\ pc[r] = "done"
                   /\ resp[r] = Response([error |-> "User not found"], 404)
                   /\ calls[r] = <<"findUnique">>)
    /\ [][\A r \in Reqs :
            (Mutating(r) /\ Leaves(r, "findUnique")
                /\ req[r].body.id.v \notin ids(users) /\ caught'[r] = NoError)
                => /\ existingUser'[r] = "null"
                   /\ resp'[r] = Response([error |-> "User not found"], 404)
                   /\ users' = users]_vars

C2_Witness ==
    \E r \in Reqs :
        /\ Mutating(r)
        /\ existingUser[r] = "null"
        /\ pc[r] = "done"
        /\ resp[r].status = 404
        /\ users # {}

\* C3: a successful DELETE answers 200 with the row as it was stored right
\* before the deletion and removes it, and no List answered after that holds
\* a row with that id.
C3_DeletedNeverListed ==
    [][\A r \in Reqs :
        /\ (req[r].method = "DELETE" /\ Leaves(r, "delete") /\ resp'[r].status = 200)
              => /\ \E u \in users :
                      /\ u.id = req[r].body.id.v
                      /\ resp'[r] = Response([user |-> u,
                                              message |-> "User deleted successfully"], 200)
                 /\ req[r].body.id.v \notin ids(users')
        /\ (req[r].method = "GET" /\ Leaves(r, "findMany") /\ resp'[r].status = 200)
              => ids(resp'[r].body.array) \cap deleted = {}]_vars

\* C4: a successful PATCH answers 200 with the updated row; a field given in
\* the body takes the given value, the row keeps its id, and every other row
\* is left as it was.
C4_UpdateFrame ==
    [][\A r \in Reqs :
        (req[r].method = "PATCH" /\ Leaves(r, "update") /\ resp'[r].status = 200)
            => LET body == req[r].body
                   old  == CHOOSE u \in users : u.id = body.id.v
                   new  == resp'[r].body.user
               IN  /\ body.id.v \in ids(users)
                   /\ resp'[r] = Response([user |-> new,
                                           message |-> "User updated successfully"], 200)
                   /\ new.id = body.id.v
                   /\ body.username.t = "string" => new.username = body.username.v
                   /\ body.password.t = "string" => new.password = body.password.v
                   /\ users' = (users \ {old}) \cup {new}
                   /\ ids(users') = ids(users)
                   /\ \A u \in users : u.id # body.id.v => u \in users']_vars

C4_Witness ==
    \E r \in Reqs :
        /\ req[r].method = "PATCH"
        /\ pc[r] = "done"
        /\ resp[r].status = 200
        /\ req[r].body.extra
        /\ resp[r].body.user \in users
        /\ resp[r].body.user.username = <<"y">>
        /\ resp[r].body.user.password = <<"q">>
        /\ Cardinality(users) = 2

\* C5: List changes no row; when its query succeeds it answers 404
\* { message: "No users found" } exactly when no row is stored, and otherwise
\* 200 with exactly the rows stored at the time of the query.
C5_List ==
    [][\A r \in Reqs :
        (req[r].method = "GET" /\ Leaves(r, "findMany"))
            => /\ users' = users
               /\ pc'[r] = "done"
               /\ caught'[r] = NoError
                    => /\ (users = {}) <=>
                              (resp'[r] = Response([message |-> "No users found"], 404))
                       /\ (users # {}) =>
                              (resp'[r] = Response([array |-> users], 200))]_vars

C5_Witness ==
    \E r \in Reqs :
        /\ req[r].method = "GET"
        /\ pc[r] = "done"
        /\ resp[r].status = 200
        /\ resp[r].body.array = users
        /\ Cardinality(users) = 2

\* C6: a Create whose insert succeeds answers 201 with { user, message:
\* "User created successfully" }, where user holds the username and password
\* of the body and an id no stored row had, and user is the one row added; a
\* Create whose insert fails adds no row and answers 500.
C6_Create ==
    [][\A r \in Reqs :
        (req[r].method = "POST" /\ Leaves(r, "create"))
            => IF caught'[r] = NoError
               THEN LET user == resp'[r].body.user
                    IN  /\ resp'[r] = Response([user |-> user,
                                                message |-> "User created successfully"], 201)
                        /\ user.username = req[r].body.username.v
                        /\ user.password = req[r].body.password.v
                        /\ user.id \notin ids(users)
                        /\ users' = users \cup {user}
                        /\ Cardinality(users') = Cardinality(users) + 1
               ELSE /\ users' = users
                    /\ resp'[r].status = 500]_vars

C6_Witness ==
    \E r \in Reqs :
        /\ req[r].method = "POST"
        /\ pc[r] = "done"
        /\ resp[r].status = 201
        /\ req[r].body.id = Undefined
        /\ resp[r].body.user \in users
        /\ Cardinality(users) = 2

\* C7: handleError answers with exactly the status code it is given and the
\* body { message: m }, m being the prefix followed at once by the message of
\* the failure when the failure is an Error, and "An unknown error occurred"
\* for every other thrown value, whatever the prefix.
C7_HandleError ==
    heOut # NoResponse =>
        /\ heOut.status = heArgs.statusCode
        /\ heArgs.error.isError =>
              heOut.body = [message |->
                               (IF heArgs.message = NoPrefix THEN "undefined"
                                ELSE heArgs.message.s) \o heArgs.error.message]
        /\ ~heArgs.error.isError =>
              heOut.body = [message |-> "An unknown error occurred"]

C7_Witness ==
    /\ heArgs = [error |-> Err("X"), statusCode |-> 500, message |-> Prefix("P: ")]
    /\ heOut = Response([message |-> "P: X"], 500)

CatchPrefix(method) ==
    CASE method = "GET"    -> "Error Fetching Users"
      [] method = "POST"   -> "Error Creating User"
      [] method = "PATCH"  -> "Error Updating User"
      [] method = "DELETE" -> "Error Deleting User"

C8_Answered ==
    \A r \in Reqs :
        /\ (pc[r] = "done") <=> (resp[r] # NoResponse)
        /\ pc[r] = "done" => resp[r].status \in {200, 201, 400, 404, 500}
        /\ Len(calls[r]) <= 2
        /\ \A i, j \in 1..Len(calls[r]) : i # j => calls[r][i] # calls[r][j]
        /\ caught[r] # NoError =>
              /\ pc[r] = "done"
              /\ resp[r] = Response(
                     [message |-> CatchPrefix(req[r].method) \o caught[r].message],
                     IF req[r].method = "GET" THEN 404 ELSE 500)

C9_OneClient ==
    /\ prisma # 0 => (prisma = 1 /\ constructed = 1)
    /\ prisma = 0 => (constructed = 0 /\ globalPrisma = 0)
    /\ \A i \in Importers : got[i] \in {0, 1}
    /\ mode = "production" => globalPrisma = 0
    /\ (mode # "production" /\ prisma # 0) => globalPrisma = 1

C9_Witness ==
    /\ mode = "development"
    /\ reloads >= 2
    /\ constructed = 1
    /\ \A i \in Importers : got[i] = 1

\* C10: when a PATCH or DELETE has passed its existence check and another
\* request deletes the row before the mutation runs, the mutation fails and
\* the request is answered 500 through handleError, never 200 and never 404.
C10_RacedIs500 ==
    \A r \in Reqs :
        (pc[r] = "done" /\ raced[r])
            => resp[r] = Response(
                   [message |-> CatchPrefix(req[r].method) \o caught[r].message], 500)

====
